---- MODULE Spec2Model ----
(***************************************************************************)
(* MultiGoalActionServer (actionlib/multi_goal_action_server.py).          *)
(*                                                                         *)
(* Two threads act on the server: the transport (ActionServer) delivery    *)
(* thread, which calls internal_goal_callback / internal_preempt_callback  *)
(* while holding action_server.lock, and the executeLoop thread.  Every    *)
(* handler of the transport thread and every server method that takes      *)
(* "with self.action_server.lock, self.lock" excludes the other such       *)
(* sections; the statements executeLoop and get_next_goal run WITHOUT a    *)
(* lock (lines 115-118, 122, 124, 281, 289, 297) are separate steps of the *)
(* execute thread and interleave with the steps of a transport handler.    *)
(***************************************************************************)
EXTENDS Integers, Sequences, FiniteSets, TLC

\* ---- bounds of the model ----
NumGoals == 3      \* goals the clients submit in one run
MaxStamp == 2      \* GoalID stamps are drawn from 1..MaxStamp

Goals  == 1..NumGoals
Stamps == 1..MaxStamp
NoGoal == 0        \* ServerGoalHandle(): a handle without a goal

\* GoalStatus values; "NONE" marks a goal no client has submitted yet
ActiveStatuses   == {"ACTIVE", "PREEMPTING"}
TerminalStatuses == {"SUCCEEDED", "ABORTED", "PREEMPTED", "REJECTED", "RECALLED"}
LiveStatuses     == {"PENDING", "ACTIVE", "PREEMPTING"}

VARIABLES
    status,                    \* goal -> GoalStatus held by its status tracker
    stamp,                     \* goal -> GoalID.stamp (0 while unsubmitted)
    current_goal,              \* self.current_goal (NoGoal or a goal)
    next_goal,                 \* self.next_goal
    new_goal,                  \* self.new_goal
    preempt_request,           \* self.preempt_request
    new_goal_preempt_request,  \* self.new_goal_preempt_request
    execution_queue,           \* self.execution_queue (deque), head first
    need_to_terminate,         \* self.need_to_terminate
    preempt_callback,          \* self.preempt_callback is registered
    goal_callback,             \* self.goal_callback is registered
    pc,                        \* position of the executeLoop thread
    goal,                      \* executeLoop's local "goal"
    tpc,                       \* position of the transport thread inside a handler
    logged,                    \* what executeLoop logged about the callback in this
                               \* iteration: "none", "no_terminal" (line 298) or
                               \* "exception" (line 303)
    ca_entry,                  \* execution_queue as it was when the transport thread
                               \* entered set_preempted (<<>> outside of it)
    ca_active,                 \* is_active() as it was at that entry
    locks,                     \* lock -> [owner, depth] of the two RLocks
                               \* (tracked in LockSpec only)
    script                     \* thread -> lock operations it has still to do in
                               \* the call it is in (LockSpec only)

vars == <<status, stamp, current_goal, next_goal, new_goal, preempt_request,
          new_goal_preempt_request, execution_queue, need_to_terminate,
          preempt_callback, goal_callback, pc, goal, logged, tpc, ca_entry,
          ca_active, locks, script>>

flags == <<new_goal, preempt_request, new_goal_preempt_request>>
slots == <<current_goal, next_goal>>
lockvars == <<locks, script>>
env   == <<need_to_terminate, preempt_callback, goal_callback, lockvars>>
hist  == <<ca_entry, ca_active>>

Range(q) == {q[i] : i \in 1..Len(q)}

\* the two threads and the two re-entrant locks
Threads == {"transport", "execute"}
Locks   == {"action_server.lock", "lock"}

\* ------------------------------------------------------------------------
\* Goal handle contract (ServerGoalHandle): each operation maps the status
\* the handle has to the status it gets; a transition the handle does not
\* allow is logged and leaves the status as it is.
\* ------------------------------------------------------------------------
gh_set_accepted(s)  == IF s = "PENDING" THEN "ACTIVE" ELSE s
gh_set_canceled(s)  == IF s = "PENDING" THEN "RECALLED"
                       ELSE IF s \in ActiveStatuses THEN "PREEMPTED" ELSE s
gh_set_rejected(s)  == IF s = "PENDING" THEN "REJECTED" ELSE s
gh_set_aborted(s)   == IF s \in ActiveStatuses THEN "ABORTED" ELSE s
gh_set_succeeded(s) == IF s \in ActiveStatuses THEN "SUCCEEDED" ELSE s
\* the transport marks a goal whose cancellation was requested
gh_set_cancel_requested(s) == IF s = "ACTIVE" THEN "PREEMPTING" ELSE s

\* a handle operation applied to the handle h (nothing on an empty handle)
OnHandle(st, h, new) == IF h = NoGoal THEN st ELSE [st EXCEPT ![h] = new]

\* ------------------------------------------------------------------------
\* Pure reads
\* ------------------------------------------------------------------------
is_active_in(st, cur) == cur # NoGoal /\ st[cur] \in ActiveStatuses
\* is_active() that forgets GoalStatus.PREEMPTING (line 143 dropped)
is_active_only_ACTIVE == current_goal # NoGoal /\ status[current_goal] = "ACTIVE"
is_active == is_active_in(status, current_goal)
is_new_goal_available == new_goal
is_preempt_requested == preempt_request
get_queue_size == Len(execution_queue)
\* rospy.is_shutdown(): the node stays up in the runs modelled here (shutting
\* the node down ends the process; the server is stopped through __del__)
is_shutdown == FALSE

\* the transport thread is inside a handler: it holds action_server.lock and
\* self.lock, so no "with self.action_server.lock, self.lock" section of the
\* execute thread can start
TransportHoldsLocks == tpc # "idle"

\* ------------------------------------------------------------------------
\* reject_all / cancel_all run to completion (no other thread steps between)
\* ------------------------------------------------------------------------
reject_all_status(st, q) ==
    [g \in Goals |-> IF g \in Range(q) THEN gh_set_rejected(st[g]) ELSE st[g]]
cancel_all_status(st, q) ==
    [g \in Goals |-> IF g \in Range(q) THEN gh_set_canceled(st[g]) ELSE st[g]]

Init ==
    /\ status = [g \in Goals |-> "NONE"]
    /\ stamp = [g \in Goals |-> 0]
    /\ current_goal = NoGoal
    /\ next_goal = NoGoal
    /\ new_goal = FALSE
    /\ preempt_request = FALSE
    /\ new_goal_preempt_request = FALSE
    /\ execution_queue = <<>>
    /\ need_to_terminate = FALSE
    /\ preempt_callback \in BOOLEAN
    /\ goal_callback = FALSE
    /\ pc = "top"
    /\ goal = NoGoal
    /\ tpc = "idle"
    /\ ca_entry = <<>>
    /\ ca_active = FALSE
    /\ logged = "none"
    /\ locks = [l \in Locks |-> [owner |-> "none", depth |-> 0]]
    /\ script = [th \in Threads |-> <<>>]

\* ========================================================================
\* Transport thread
\* ========================================================================

\* the timestamp check with ">" for ">=": a tie counts as older
Admissible_strict(t) ==
    /\ (current_goal = NoGoal \/ t > stamp[current_goal])
    /\ (next_goal = NoGoal \/ t > stamp[next_goal])

\* internal_goal_callback's timestamp check (lines 229-230)
Admissible(t) ==
    /\ (current_goal = NoGoal \/ t >= stamp[current_goal])
    /\ (next_goal = NoGoal \/ t >= stamp[next_goal])

\* internal_goal_callback that puts the admitted goal at the front of the
\* queue (appendleft for append)
internal_goal_callback_appendleft(g, t) ==
    /\ tpc = "idle"
    /\ status[g] = "NONE"
    /\ \A h \in Goals : h < g => status[h] # "NONE"
    /\ stamp' = [stamp EXCEPT ![g] = t]
    /\ IF Admissible(t)
       THEN /\ execution_queue' = <<g>> \o execution_queue
            /\ status' = [status EXCEPT ![g] = "PENDING"]
       ELSE /\ status' = [status EXCEPT ![g] = gh_set_canceled("PENDING")]
            /\ UNCHANGED execution_queue
    /\ UNCHANGED <<slots, flags, env, pc, goal, logged, tpc, hist>>

\* A client submits goal g with stamp t: the transport creates its handle
\* (PENDING) and calls internal_goal_callback(goal).
internal_goal_callback(g, t) ==
    /\ tpc = "idle"
    /\ status[g] = "NONE"
    /\ \A h \in Goals : h < g => status[h] # "NONE"
    /\ stamp' = [stamp EXCEPT ![g] = t]
    /\ IF Admissible(t)
       THEN /\ execution_queue' = Append(execution_queue, g)
            /\ status' = [status EXCEPT ![g] = "PENDING"]
       ELSE /\ status' = [status EXCEPT ![g] = gh_set_canceled("PENDING")]
            /\ UNCHANGED execution_queue
    /\ UNCHANGED <<slots, flags, env, pc, goal, logged, tpc, hist>>

\* internal_preempt_callback without the comparison of line 257: every
\* preempt is taken to be for the current goal
internal_preempt_callback_any(g) ==
    /\ tpc = "idle"
    /\ status[g] # "NONE"
    /\ status' = [status EXCEPT ![g] = gh_set_cancel_requested(@)]
    /\ preempt_request' = TRUE
    /\ tpc' = IF preempt_callback THEN "pcb" ELSE "idle"
    /\ UNCHANGED <<new_goal, new_goal_preempt_request>>
    /\ UNCHANGED <<stamp, slots, execution_queue, env, pc, goal, logged, hist>>

\* internal_preempt_callback that forces the preempt: the current goal is
\* canceled by the handler itself instead of being left to the callbacks
internal_preempt_callback_forcing(g) ==
    /\ tpc = "idle"
    /\ status[g] # "NONE"
    /\ IF g = current_goal
       THEN /\ status' = [status EXCEPT ![g] = gh_set_canceled(@)]
            /\ preempt_request' = TRUE
            /\ tpc' = IF preempt_callback THEN "pcb" ELSE "idle"
            /\ UNCHANGED <<new_goal, new_goal_preempt_request>>
       ELSE /\ status' = [status EXCEPT ![g] = gh_set_cancel_requested(@)]
            /\ IF g = next_goal
               THEN new_goal_preempt_request' = TRUE
               ELSE UNCHANGED new_goal_preempt_request
            /\ UNCHANGED <<preempt_request, new_goal, tpc>>
    /\ UNCHANGED <<stamp, slots, execution_queue, env, pc, goal, logged, hist>>

\* A cancel message for goal g arrives: the transport marks the handle and
\* calls internal_preempt_callback(preempt), lines 252-267.  With a preempt
\* callback registered, line 263 calls it next (tpc = "pcb").
internal_preempt_callback(g) ==
    /\ tpc = "idle"
    /\ status[g] # "NONE"
    /\ status' = [status EXCEPT ![g] = gh_set_cancel_requested(@)]
    /\ IF g = current_goal
       THEN /\ preempt_request' = TRUE
            /\ tpc' = IF preempt_callback THEN "pcb" ELSE "idle"
            /\ UNCHANGED <<new_goal, new_goal_preempt_request>>
       ELSE /\ IF g = next_goal
               THEN new_goal_preempt_request' = TRUE
               ELSE UNCHANGED new_goal_preempt_request
            /\ UNCHANGED <<preempt_request, new_goal, tpc>>
    /\ UNCHANGED <<stamp, slots, execution_queue, env, pc, goal, logged, hist>>

\* The registered preempt callback is user code, run by the transport thread
\* inside internal_preempt_callback: it returns without touching the server,
PreemptCbReturn ==
    /\ tpc = "pcb"
    /\ tpc' = "idle"
    /\ UNCHANGED <<status, stamp, slots, flags, execution_queue, env, pc, goal,
                   logged, hist>>

\* or it calls set_preempted: lines 176-178 cancel the current goal, then
\* cancel_all runs, step by step, below.
PreemptCbSetPreempted ==
    /\ tpc = "pcb"
    /\ status' = IF current_goal = NoGoal THEN status
                 ELSE [status EXCEPT ![current_goal] = gh_set_canceled(@)]
    /\ ca_entry' = execution_queue
    /\ ca_active' = is_active
    /\ tpc' = "ca_len"
    /\ UNCHANGED <<stamp, slots, flags, execution_queue, env, pc, goal, logged>>

\* cancel_all on the transport thread, line 196: while len(queue) > 0
\* (an empty queue ends cancel_all; set_preempted and the handler return)
CancelAllLen ==
    /\ tpc = "ca_len"
    /\ IF Len(execution_queue) > 0
       THEN tpc' = "ca_head" /\ UNCHANGED hist
       ELSE tpc' = "idle" /\ ca_entry' = <<>> /\ ca_active' = FALSE
    /\ UNCHANGED <<status, stamp, slots, flags, execution_queue, env, pc, goal,
                   logged>>

\* line 197: execution_queue[0].set_canceled(...); IndexError on a queue the
\* execute thread has emptied meanwhile ends the handler
CancelAllHead ==
    /\ tpc = "ca_head"
    /\ IF Len(execution_queue) > 0
       THEN /\ status' = [status EXCEPT ![Head(execution_queue)] = gh_set_canceled(@)]
            /\ tpc' = "ca_pop"
            /\ UNCHANGED hist
       ELSE /\ tpc' = "idle"
            /\ ca_entry' = <<>> /\ ca_active' = FALSE
            /\ UNCHANGED status
    /\ UNCHANGED <<stamp, slots, flags, execution_queue, env, pc, goal, logged>>

\* line 198: execution_queue.popleft(); IndexError on an empty queue
CancelAllPop ==
    /\ tpc = "ca_pop"
    /\ IF Len(execution_queue) > 0
       THEN /\ execution_queue' = Tail(execution_queue)
            /\ tpc' = "ca_len"
            /\ UNCHANGED hist
       ELSE /\ tpc' = "idle"
            /\ ca_entry' = <<>> /\ ca_active' = FALSE
            /\ UNCHANGED execution_queue
    /\ UNCHANGED <<status, stamp, slots, flags, env, pc, goal, logged>>

\* __del__ sets need_to_terminate (and then joins the thread)
Del ==
    /\ ~need_to_terminate
    /\ need_to_terminate' = TRUE
    /\ UNCHANGED <<status, stamp, slots, flags, execution_queue, preempt_callback,
                   goal_callback, pc, goal, logged, tpc, hist, lockvars>>

\* ========================================================================
\* Server methods that run under "with self.action_server.lock, self.lock".
\* Called from the execute thread they run to completion: the transport
\* thread takes action_server.lock before every handler.
\* ========================================================================

\* accept_new_goal, lines 86-110
accept_new_goal ==
    IF ~new_goal \/ next_goal = NoGoal
    THEN UNCHANGED <<status, current_goal, flags>>
    ELSE LET canceled ==
                 IF is_active /\ current_goal # next_goal
                 THEN [status EXCEPT ![current_goal] = gh_set_canceled(@)]
                 ELSE status
         IN  /\ current_goal' = next_goal
             /\ new_goal' = FALSE
             /\ preempt_request' = new_goal_preempt_request
             /\ new_goal_preempt_request' = FALSE
             /\ status' = [canceled EXCEPT ![next_goal] = gh_set_accepted(@)]

\* set_succeeded that flushes the queue the way set_aborted does
set_succeeded_flushing ==
    /\ status' = reject_all_status(
                     IF current_goal = NoGoal THEN status
                     ELSE [status EXCEPT ![current_goal] = gh_set_succeeded(@)],
                     execution_queue)
    /\ execution_queue' = <<>>

\* set_succeeded, lines 147-151
set_succeeded ==
    /\ status' = IF current_goal = NoGoal THEN status
                 ELSE [status EXCEPT ![current_goal] = gh_set_succeeded(@)]
    /\ UNCHANGED execution_queue

\* reject_all with "if" for "while": only the head of the queue is rejected
reject_all_head_only(st) ==
    /\ status' = IF execution_queue = <<>> THEN st
                 ELSE [st EXCEPT ![Head(execution_queue)] = gh_set_rejected(@)]
    /\ execution_queue' = IF execution_queue = <<>> THEN <<>>
                          ELSE Tail(execution_queue)

\* reject_all, lines 184-189, and cancel_all, lines 193-198, from a status map
reject_all(st) ==
    /\ status' = reject_all_status(st, execution_queue)
    /\ execution_queue' = <<>>
cancel_all(st) ==
    /\ status' = cancel_all_status(st, execution_queue)
    /\ execution_queue' = <<>>

\* set_aborted, lines 155-161
set_aborted ==
    reject_all(IF current_goal = NoGoal THEN status
               ELSE [status EXCEPT ![current_goal] = gh_set_aborted(@)])

\* set_preempted, lines 173-180
set_preempted ==
    cancel_all(IF current_goal = NoGoal THEN status
               ELSE [status EXCEPT ![current_goal] = gh_set_canceled(@)])

\* ========================================================================
\* executeLoop thread
\* ========================================================================

\* lines 273-276: the outer while test and the need_to_terminate check
LoopTop ==
    /\ pc = "top"
    /\ pc' = IF is_shutdown \/ need_to_terminate THEN "done" ELSE "spin"
    /\ UNCHANGED <<status, stamp, slots, flags, execution_queue, env, goal,
                   logged, tpc, hist>>

\* lines 280-282: the unlocked busy check; it is left when the current goal
\* is not active (or on shutdown), and repeats otherwise
LoopSpin ==
    /\ pc = "spin"
    /\ is_shutdown \/ ~is_active
    /\ pc' = "gn_len"
    /\ UNCHANGED <<status, stamp, slots, flags, execution_queue, env, goal,
                   logged, tpc, hist>>

\* get_next_goal, line 115: if len(self.execution_queue) > 0
GetNextGoalLen ==
    /\ pc = "gn_len"
    /\ pc' = IF Len(execution_queue) > 0 THEN "gn_peek" ELSE "gn_ret"
    /\ UNCHANGED <<status, stamp, slots, flags, execution_queue, env, goal,
                   logged, tpc, hist>>

\* line 116: self.next_goal = self.execution_queue[0]  (IndexError, which
\* nothing in executeLoop catches, when the queue was emptied meanwhile)
GetNextGoalPeek ==
    /\ pc = "gn_peek"
    /\ IF Len(execution_queue) > 0
       THEN next_goal' = Head(execution_queue) /\ pc' = "gn_flags"
       ELSE pc' = "crashed" /\ UNCHANGED next_goal
    /\ UNCHANGED <<status, stamp, current_goal, flags, execution_queue, env,
                   goal, logged, tpc, hist>>

\* lines 117-118: self.new_goal = True; self.new_goal_preempt_request = False
\* (no other thread reads or writes new_goal between the two assignments)
GetNextGoalFlags ==
    /\ pc = "gn_flags"
    /\ new_goal' = TRUE
    /\ new_goal_preempt_request' = FALSE
    /\ pc' = "gn_accept"
    /\ UNCHANGED <<status, stamp, slots, preempt_request, execution_queue, env,
                   goal, logged, tpc, hist>>

\* line 120: self.accept_new_goal()
GetNextGoalAccept ==
    /\ pc = "gn_accept"
    /\ ~TransportHoldsLocks
    /\ accept_new_goal
    /\ next_goal' = next_goal
    /\ pc' = "gn_pop"
    /\ UNCHANGED <<stamp, execution_queue, env, goal, logged, tpc, hist>>

\* line 122: self.execution_queue.popleft()  (IndexError on an empty deque)
GetNextGoalPop ==
    /\ pc = "gn_pop"
    /\ IF Len(execution_queue) > 0
       THEN execution_queue' = Tail(execution_queue) /\ pc' = "gn_ret"
       ELSE pc' = "crashed" /\ UNCHANGED execution_queue
    /\ UNCHANGED <<status, stamp, slots, flags, env, goal, logged, tpc, hist>>

\* lines 124 and 287: goal = self.current_goal.get_goal()
GetNextGoalReturn ==
    /\ pc = "gn_ret"
    /\ goal' = current_goal
    /\ pc' = "chk"
    /\ UNCHANGED <<status, stamp, slots, flags, execution_queue, env, logged,
                   tpc, hist>>

\* lines 289-295: if self.is_active(): ... self.execute_callback(goal)
LoopCheckActive ==
    /\ pc = "chk"
    /\ pc' = IF is_active THEN "cb" ELSE "wait"
    /\ UNCHANGED <<status, stamp, slots, flags, execution_queue, env, goal,
                   logged, tpc, hist>>

\* The execute callback is user code: while it runs it may call
\* set_succeeded / set_aborted / set_preempted, then it returns or raises.
CbSetSucceeded ==
    /\ pc = "cb" /\ ~TransportHoldsLocks
    /\ set_succeeded
    /\ UNCHANGED <<stamp, slots, flags, env, pc, goal, logged, tpc, hist>>

CbSetAborted ==
    /\ pc = "cb" /\ ~TransportHoldsLocks
    /\ set_aborted
    /\ UNCHANGED <<stamp, slots, flags, env, pc, goal, logged, tpc, hist>>

CbSetPreempted ==
    /\ pc = "cb" /\ ~TransportHoldsLocks
    /\ set_preempted
    /\ UNCHANGED <<stamp, slots, flags, env, pc, goal, logged, tpc, hist>>

CbReturn ==
    /\ pc = "cb"
    /\ pc' = "post"
    /\ UNCHANGED <<status, stamp, slots, flags, execution_queue, env, goal,
                   logged, tpc, hist>>

CbRaise ==
    /\ pc = "cb"
    /\ pc' = "exc"
    /\ UNCHANGED <<status, stamp, slots, flags, execution_queue, env, goal,
                   logged, tpc, hist>>

\* the loop without the check of line 297: a callback that returned is trusted
LoopPostCheck_trusting ==
    /\ pc = "post"
    /\ pc' = "wait"
    /\ UNCHANGED <<status, stamp, slots, flags, execution_queue, env, goal,
                   logged, tpc, hist>>

\* line 297: if self.is_active()  (read without a lock)
LoopPostCheck ==
    /\ pc = "post"
    /\ pc' = IF is_active THEN "abort" ELSE "wait"
    /\ UNCHANGED <<status, stamp, slots, flags, execution_queue, env, goal,
                   logged, tpc, hist>>

\* lines 298-301: logwarn; self.set_aborted(None, "No terminal state was set.")
LoopGuardAbort ==
    /\ pc = "abort" /\ ~TransportHoldsLocks
    /\ set_aborted
    /\ logged' = "no_terminal"
    /\ pc' = "wait"
    /\ UNCHANGED <<stamp, slots, flags, env, goal, tpc, hist>>

\* lines 302-305: except Exception: logerr; self.set_aborted(None, "Exception ...")
LoopExceptAbort ==
    /\ pc = "exc" /\ ~TransportHoldsLocks
    /\ set_aborted
    /\ logged' = "exception"
    /\ pc' = "wait"
    /\ UNCHANGED <<stamp, slots, flags, env, goal, tpc, hist>>

\* lines 307-308: with self.execute_condition: wait(0.1 s); a notify or the
\* timeout ends the wait and the loop starts its next iteration
LoopWait ==
    /\ pc = "wait" /\ ~TransportHoldsLocks
    /\ pc' = "top"
    /\ logged' = "none"
    /\ UNCHANGED <<status, stamp, slots, flags, execution_queue, env, goal,
                   tpc, hist>>

GetNextGoal ==
    \/ GetNextGoalLen \/ GetNextGoalPeek \/ GetNextGoalFlags
    \/ GetNextGoalAccept \/ GetNextGoalPop \/ GetNextGoalReturn

ExecuteCallback ==
    CbSetSucceeded \/ CbSetAborted \/ CbSetPreempted \/ CbReturn \/ CbRaise

executeLoop ==
    \/ LoopTop \/ LoopSpin \/ GetNextGoal \/ LoopCheckActive \/ ExecuteCallback
    \/ LoopPostCheck \/ LoopGuardAbort \/ LoopExceptAbort \/ LoopWait

Transport ==
    \/ \E g \in Goals, t \in Stamps : internal_goal_callback(g, t)
    \/ \E g \in Goals : internal_preempt_callback(g)
    \/ PreemptCbReturn \/ PreemptCbSetPreempted
    \/ CancelAllLen \/ CancelAllHead \/ CancelAllPop

Next == Transport \/ executeLoop \/ Del

Spec == Init /\ [][Next]_vars

TypeOK ==
    /\ status \in [Goals -> {"NONE"} \cup LiveStatuses \cup TerminalStatuses]
    /\ stamp \in [Goals -> 0..MaxStamp]
    /\ current_goal \in Goals \cup {NoGoal}
    /\ next_goal \in Goals \cup {NoGoal}
    /\ tpc \in {"idle", "pcb", "ca_len", "ca_head", "ca_pop"}

\* Runs in which the server is not stopped, under fair scheduling: the
\* execute thread gets the locks it asks for again and again, a transport
\* handler that has started runs to its end, and every execute callback
\* invocation returns or raises.
TransportHandlerStep ==
    \/ PreemptCbReturn \/ PreemptCbSetPreempted
    \/ CancelAllLen \/ CancelAllHead \/ CancelAllPop

FairNext == Transport \/ executeLoop

FairSpec ==
    /\ Init /\ [][FairNext]_vars
    /\ SF_vars(executeLoop)
    /\ WF_vars(TransportHandlerStep)
    /\ WF_vars(CbReturn \/ CbRaise)

\* Runs in which the server may be stopped (__del__), under the fair
\* scheduling of FairSpec.
ShutdownSpec ==
    /\ Init /\ [][Next]_vars
    /\ SF_vars(executeLoop)
    /\ WF_vars(TransportHandlerStep)
    /\ WF_vars(CbReturn \/ CbRaise)

\* ========================================================================
\* The callback-driven configuration: the server is constructed without an
\* execute callback, so no executeLoop thread exists (lines 59-63, pc =
\* "none"); the user registers a goal callback and calls the server's methods
\* from a thread of their own.
\* ========================================================================
InitCallbackDriven ==
    /\ status = [g \in Goals |-> "NONE"]
    /\ stamp = [g \in Goals |-> 0]
    /\ current_goal = NoGoal
    /\ next_goal = NoGoal
    /\ new_goal = FALSE
    /\ preempt_request = FALSE
    /\ new_goal_preempt_request = FALSE
    /\ execution_queue = <<>>
    /\ need_to_terminate = FALSE
    /\ preempt_callback \in BOOLEAN
    /\ goal_callback = FALSE
    /\ pc = "none"
    /\ goal = NoGoal
    /\ tpc = "idle"
    /\ ca_entry = <<>>
    /\ ca_active = FALSE
    /\ logged = "none"
    /\ locks = [l \in Locks |-> [owner |-> "none", depth |-> 0]]
    /\ script = [th \in Threads |-> <<>>]

\* register_goal_callback, lines 202-206: without an execute callback the
\* callback is stored
register_goal_callback ==
    /\ pc = "none"
    /\ ~goal_callback
    /\ goal_callback' = TRUE
    /\ UNCHANGED <<status, stamp, slots, flags, execution_queue,
                   need_to_terminate, preempt_callback, pc, goal, logged, tpc,
                   hist, lockvars>>

\* the user's thread calls accept_new_goal (after polling
\* is_new_goal_available, or unconditionally: lines 88-90 then log an error)
UserAcceptNewGoal ==
    /\ pc = "none" /\ ~TransportHoldsLocks
    /\ accept_new_goal
    /\ next_goal' = next_goal
    /\ UNCHANGED <<stamp, execution_queue, env, pc, goal, logged, tpc, hist>>

\* the user's thread calls set_aborted / set_preempted
UserSetAborted ==
    /\ pc = "none" /\ ~TransportHoldsLocks
    /\ set_aborted
    /\ UNCHANGED <<stamp, slots, flags, env, pc, goal, logged, tpc, hist>>

UserSetPreempted ==
    /\ pc = "none" /\ ~TransportHoldsLocks
    /\ set_preempted
    /\ UNCHANGED <<stamp, slots, flags, env, pc, goal, logged, tpc, hist>>

CallbackDrivenNext ==
    \/ \E g \in Goals, t \in Stamps : internal_goal_callback(g, t)
    \/ \E g \in Goals : internal_preempt_callback(g)
    \/ register_goal_callback
    \/ UserAcceptNewGoal \/ UserSetAborted \/ UserSetPreempted

CallbackDrivenSpec == InitCallbackDriven /\ [][CallbackDrivenNext]_vars

\* ========================================================================
\* Lock level: what each thread does with action_server.lock and self.lock.
\* A call is the sequence of lock operations its "with" statements perform;
\* both locks are threading.RLock (owner and depth).  Everything else of the
\* server is left as constructed in LockSpec.
\* ========================================================================
Acquire(l)       == <<"acquire", l>>
Release(l)       == <<"release", l>>
WaitRelease(l)   == <<"wait_release", l>>
WaitReacquire(l) == <<"wait_reacquire", l>>

\* a method that takes self.lock first and the adapter's lock second
WithLocks_inner_first(body) ==
    <<Acquire("lock"), Acquire("action_server.lock")>> \o body
        \o <<Release("action_server.lock"), Release("lock")>>

\* with self.action_server.lock, self.lock: <body>
WithLocks(body) ==
    <<Acquire("action_server.lock"), Acquire("lock")>> \o body
        \o <<Release("lock"), Release("action_server.lock")>>

lk_accept_new_goal == WithLocks(<<>>)
lk_set_succeeded   == WithLocks(<<>>)
lk_reject_all      == WithLocks(<<>>)
lk_cancel_all      == WithLocks(<<>>)
lk_set_aborted     == WithLocks(lk_reject_all)
lk_set_preempted   == WithLocks(lk_cancel_all)

\* lines 307-308: with self.execute_condition: self.execute_condition.wait(..)
\* (the condition is built on self.lock; wait releases it and takes it again)
lk_wait ==
    <<Acquire("lock"), WaitRelease("lock"), WaitReacquire("lock"), Release("lock")>>

\* the methods the execute callback and the preempt callback may call
ServerCalls ==
    {lk_set_succeeded, lk_set_aborted, lk_set_preempted, lk_reject_all,
     lk_cancel_all}

\* the transport takes its lock, then calls internal_goal_callback, which
\* takes self.lock through execute_condition (lines 223, 242/246/249)
lk_internal_goal_callback ==
    <<Acquire("action_server.lock"), Acquire("lock"), Release("lock"),
      Release("action_server.lock")>>

\* the transport takes its lock, then calls internal_preempt_callback: with
\* self.lock (line 253), inside it the preempt callback with what it calls
lk_internal_preempt_callback(body) ==
    <<Acquire("action_server.lock"), Acquire("lock")>> \o body
        \o <<Release("lock"), Release("action_server.lock")>>

Holds(th, l) == locks[l].owner = th

LockIdle ==
    <<status, stamp, slots, flags, execution_queue, need_to_terminate,
      preempt_callback, goal_callback, pc, goal, logged, tpc, hist>>

\* the execute thread, holding no lock, enters accept_new_goal (line 120), a
\* method its execute callback calls, set_aborted (lines 301, 305) or the wait
ExecuteCalls ==
    /\ script["execute"] = <<>>
    /\ \E s \in ServerCalls \cup {lk_accept_new_goal, lk_wait} :
           script' = [script EXCEPT !["execute"] = s]
    /\ UNCHANGED <<LockIdle, locks>>

\* the transport delivers a goal or a cancel message
TransportDelivers ==
    /\ script["transport"] = <<>>
    /\ \E s \in {lk_internal_goal_callback}
                \cup {lk_internal_preempt_callback(b) :
                        b \in IF preempt_callback THEN ServerCalls \cup {<<>>}
                              ELSE {<<>>}} :
           script' = [script EXCEPT !["transport"] = s]
    /\ UNCHANGED <<LockIdle, locks>>

\* RLock.acquire: free or already owned by the caller, else the caller blocks
LockAcquire(th) ==
    /\ script[th] # <<>>
    /\ Head(script[th])[1] = "acquire"
    /\ LET l == Head(script[th])[2]
       IN  /\ locks[l].owner \in {"none", th}
           /\ locks' = [locks EXCEPT ![l] = [owner |-> th, depth |-> @.depth + 1]]
    /\ script' = [script EXCEPT ![th] = Tail(@)]
    /\ UNCHANGED LockIdle

\* RLock.release
LockRelease(th) ==
    /\ script[th] # <<>>
    /\ Head(script[th])[1] = "release"
    /\ LET l == Head(script[th])[2]
       IN  locks' = [locks EXCEPT ![l] =
                        IF @.depth = 1 THEN [owner |-> "none", depth |-> 0]
                        ELSE [owner |-> th, depth |-> @.depth - 1]]
    /\ script' = [script EXCEPT ![th] = Tail(@)]
    /\ UNCHANGED LockIdle

\* Condition.wait gives the lock up ...
ConditionWaitRelease ==
    /\ script["execute"] # <<>>
    /\ Head(script["execute"])[1] = "wait_release"
    /\ locks' = [locks EXCEPT ![Head(script["execute"])[2]] =
                    [owner |-> "none", depth |-> 0]]
    /\ script' = [script EXCEPT !["execute"] = Tail(@)]
    /\ UNCHANGED LockIdle

\* ... and takes it again after the notify or the timeout
ConditionWaitReacquire ==
    /\ script["execute"] # <<>>
    /\ Head(script["execute"])[1] = "wait_reacquire"
    /\ LET l == Head(script["execute"])[2]
       IN  /\ locks[l].owner = "none"
           /\ locks' = [locks EXCEPT ![l] = [owner |-> "execute", depth |-> 1]]
    /\ script' = [script EXCEPT !["execute"] = Tail(@)]
    /\ UNCHANGED LockIdle

LockNext ==
    \/ ExecuteCalls \/ TransportDelivers
    \/ \E th \in Threads : LockAcquire(th)
    \/ \E th \in Threads : LockRelease(th)
    \/ ConditionWaitRelease \/ ConditionWaitReacquire

LockSpec == Init /\ [][LockNext]_vars

\* ========================================================================
\* Properties
\* ========================================================================

\* C1 -- single-active invariant: every goal whose status is ACTIVE or
\* PREEMPTING is the goal held in the current-goal slot (so there is at most
\* one such goal).
C1_SingleActive ==
    \A g \in Goals : status[g] \in ActiveStatuses => g = current_goal

\* a second goal has been promoted and is active while a preempt is pending on
\* it, its predecessor is terminal and a third goal waits in the queue
C1_Witness ==
    /\ current_goal # NoGoal
    /\ status[current_goal] = "PREEMPTING"
    /\ \E h \in Goals : h # current_goal /\ status[h] \in TerminalStatuses
    /\ \E h \in Goals : h # current_goal /\ status[h] = "PENDING"
                        /\ h \in Range(execution_queue)

\* C2 -- every submitted goal eventually reaches a terminal status: under
\* FairSpec (server not stopped, fair scheduling, callbacks return) a goal that
\* is PENDING, ACTIVE or PREEMPTING is eventually SUCCEEDED, ABORTED,
\* PREEMPTED, REJECTED or RECALLED.
C2_EventuallyTerminal ==
    \A g \in Goals :
        (status[g] \in LiveStatuses) ~> (status[g] \in TerminalStatuses)

\* C3 -- latest-wins: once goals 1 and 2 have been submitted in that order,
\* goal 2 with the later stamp, while no goal is current, then whenever goal 2
\* is active goal 1 has ended PREEMPTED or has never been active.
C3_Submitted12 ==
    /\ current_goal = NoGoal
    /\ status[1] = "PENDING" /\ status[2] = "PENDING"
    /\ stamp[1] < stamp[2]

C3_LatestWins ==
    [](C3_Submitted12 =>
          [](status[2] \in ActiveStatuses =>
                 status[1] \in {"PREEMPTED", "PENDING", "RECALLED", "REJECTED"}))

\* C4 -- admission rule of internal_goal_callback: the submitted goal is
\* appended to the queue (and stays PENDING) iff its stamp is >= the stamp of
\* the current slot and of the next slot, each when occupied; otherwise it is
\* RECALLED at once and the queue is unchanged; and a goal turned away like
\* this (RECALLED, in no slot, not queued) stays out of the queue and of both
\* slots for ever.
C4_TurnedAway(g) ==
    /\ status[g] = "RECALLED"
    /\ g \notin Range(execution_queue)
    /\ g # current_goal /\ g # next_goal

C4_AdmissionRule ==
    [][\A g \in Goals :
         /\ (status[g] = "NONE" /\ status'[g] # "NONE") =>
               IF /\ (current_goal = NoGoal \/ stamp'[g] >= stamp[current_goal])
                  /\ (next_goal = NoGoal \/ stamp'[g] >= stamp[next_goal])
               THEN /\ execution_queue' = Append(execution_queue, g)
                    /\ status'[g] = "PENDING"
               ELSE /\ execution_queue' = execution_queue
                    /\ C4_TurnedAway(g)'
         /\ C4_TurnedAway(g) => C4_TurnedAway(g)'
      ]_vars

\* a goal older than the current goal was turned away, and a goal with the
\* same stamp as the current goal waits in the queue
C4_Witness ==
    /\ current_goal # NoGoal
    /\ \E g \in Goals : C4_TurnedAway(g) /\ stamp[g] < stamp[current_goal]
    /\ \E h \in Goals : /\ h # current_goal
                        /\ h \in Range(execution_queue)
                        /\ status[h] = "PENDING"
                        /\ stamp[h] = stamp[current_goal]

\* C5 -- abort flush: a set_aborted call made while the current goal is active
\* leaves that goal ABORTED, every goal that was in the queue REJECTED, and the
\* queue empty.
C5_SetAbortedCall == CbSetAborted \/ LoopGuardAbort \/ LoopExceptAbort

C6_Canceled == {"RECALLED", "PREEMPTED"}

C6_PreemptedFlush ==
    [][/\ (CbSetPreempted /\ is_active) =>
             /\ status'[current_goal] = "PREEMPTED"
             /\ \A g \in Range(execution_queue) : status'[g] \in C6_Canceled
             /\ execution_queue' = <<>>
       /\ (CancelAllLen /\ tpc' = "idle" /\ ca_active) =>
             /\ status'[current_goal] = "PREEMPTED"
             /\ \A g \in Range(ca_entry) : status'[g] \in C6_Canceled
             /\ execution_queue' = <<>>
      ]_vars

\* C7 -- set_succeeded does not flush: called on the active current goal it
\* changes that goal's status to SUCCEEDED and nothing else (queue, statuses of
\* the queued goals, flags and slots are as before), and every goal in the
\* queue is still PENDING, so still eligible for promotion, when it returns.
C7_SucceededFrame ==
    [][(CbSetSucceeded /\ is_active) =>
          /\ status' = [status EXCEPT ![current_goal] = "SUCCEEDED"]
          /\ UNCHANGED <<execution_queue, flags, slots>>
          /\ \A g \in Range(execution_queue') : status'[g] = "PENDING"
      ]_vars

\* the current goal is SUCCEEDED inside its callback and two goals still wait,
\* PENDING, in the queue
C7_Witness ==
    /\ pc = "cb"
    /\ current_goal # NoGoal
    /\ status[current_goal] = "SUCCEEDED"
    /\ Len(execution_queue) >= 2
    /\ \A g \in Range(execution_queue) : status[g] = "PENDING"

\* C7 as first stated, its last part: every goal waiting in the queue once the
\* current goal is SUCCEEDED is later promoted to current.
C7_LeftAreAllPromoted ==
    \A g \in Goals :
        (/\ current_goal # NoGoal /\ g # current_goal
         /\ status[current_goal] = "SUCCEEDED"
         /\ g \in Range(execution_queue))
        ~> (current_goal = g)

\* C8 -- callback fault containment: when the execute callback has returned or
\* raised, the loop's set_aborted turns a goal that is still active into
\* ABORTED, the loop goes on to its wait (it neither exits nor dies), and the
\* goal it passed to the callback is terminal whenever the loop waits after
\* logging a callback fault or after the callback returned.
C8_FaultContained ==
    /\ [][(pc \in {"abort", "exc"} /\ pc' # pc) =>
             /\ pc' = "wait"
             /\ goal = current_goal
             /\ is_active => status'[goal] = "ABORTED"
         ]_vars
    /\ [][(pc \in {"post", "abort", "exc"} /\ pc' # pc /\ pc' # "abort") =>
             /\ pc' = "wait"
             /\ status'[goal] \in TerminalStatuses
         ]_vars

\* C8 as first stated: whenever the loop handles a callback that returned
\* without a terminal status or raised, the goal is ABORTED afterwards.
C8_AlwaysAborted ==
    [][(pc \in {"abort", "exc"} /\ pc' = "wait") => status'[goal] = "ABORTED"]_vars

\* the loop waits after it aborted a goal whose callback returned without a
\* terminal status
C8_Witness ==
    /\ pc = "wait"
    /\ logged = "no_terminal"
    /\ goal # NoGoal /\ status[goal] = "ABORTED"

\* C9 -- preempt targeting: internal_preempt_callback for a goal that is in
\* neither slot changes no flag, not the queue and no slot, and does not call
\* the preempt callback (the transport thread is back idle).
C9_PreemptTargeting ==
    [][\A g \in Goals :
          (internal_preempt_callback(g) /\ g # current_goal /\ g # next_goal) =>
              /\ UNCHANGED <<flags, execution_queue, slots>>
              /\ tpc' = "idle"
      ]_vars

\* a preempt can arrive for a goal waiting in the queue and for a terminal,
\* displaced goal, neither in a slot, while a callback is registered and the
\* current goal is active
C9_Witness ==
    /\ tpc = "idle" /\ preempt_callback /\ is_active
    /\ \E g \in Goals : /\ g # current_goal /\ g # next_goal
                        /\ status[g] = "PENDING" /\ g \in Range(execution_queue)
    /\ \E g \in Goals : /\ g # current_goal /\ g # next_goal
                        /\ status[g] \in TerminalStatuses

\* C10 -- idempotent terminal status: a set_succeeded / set_aborted /
\* set_preempted call made when the current goal is already terminal changes
\* no goal's status and leaves the queue as it is.
C10_SetCall ==
    \/ CbSetSucceeded \/ CbSetAborted \/ CbSetPreempted
    \/ LoopGuardAbort \/ LoopExceptAbort \/ PreemptCbSetPreempted

C10_IdempotentTerminal ==
    [][(/\ C10_SetCall
        /\ current_goal # NoGoal
        /\ status[current_goal] \in TerminalStatuses) =>
          UNCHANGED <<status, execution_queue>>
      ]_vars

\* C11 -- a pending preempt is carried over on promotion: once a preempt has
\* been received for the goal in the next-goal slot that is not yet current
\* (internal_preempt_callback has set new_goal_preempt_request for it), then
\* whenever that goal is the current goal is_preempt_requested() is true.
C11_PreemptReceivedForNext(g) ==
    /\ next_goal = g /\ current_goal # g
    /\ new_goal_preempt_request

C11_PreemptCarriedOver ==
    \A g \in Goals :
        [](C11_PreemptReceivedForNext(g) =>
              [](current_goal = g => is_preempt_requested))

\* C12 -- the execution queue never contains the current goal: in every
\* reachable state, also between the steps of get_next_goal, the goal in the
\* current-goal slot is not an element of execution_queue.
C12_QueueExcludesCurrent ==
    current_goal = NoGoal \/ current_goal \notin Range(execution_queue)

\* C13 -- cooperative preemption: a preempt for the goal in the current slot
\* sets preempt_request and calls the registered preempt callback, once and
\* from within the handler (the callback runs only when entered like this);
\* the handler changes no slot, not the queue, and makes no goal terminal or
\* non-terminal; and while no set_succeeded / set_aborted / set_preempted call
\* and no promotion happens, an active current goal with a pending preempt
\* stays current and active with is_preempt_requested() true.
C13_Standing(st) == [g \in Goals |-> st[g] \in TerminalStatuses]

C13_CooperativePreempt ==
    /\ [][\A g \in Goals :
            (internal_preempt_callback(g) /\ g = current_goal) =>
                /\ preempt_request'
                /\ tpc' = (IF preempt_callback THEN "pcb" ELSE "idle")
                /\ UNCHANGED <<slots, execution_queue>>
                /\ C13_Standing(status') = C13_Standing(status)
         ]_vars
    /\ [][(tpc # "pcb" /\ tpc' = "pcb") =>
             /\ preempt_callback
             /\ internal_preempt_callback(current_goal)
         ]_vars
    /\ [][(/\ is_active /\ preempt_request
           /\ ~(C10_SetCall \/ GetNextGoalAccept)) =>
             /\ current_goal' = current_goal
             /\ is_active'
             /\ preempt_request'
         ]_vars

\* the preempt callback has returned without calling set_preempted: the
\* current goal is still current, PREEMPTING, its execute callback still runs
\* with is_preempt_requested() true, and a goal still waits in the queue
C13_Witness ==
    /\ preempt_callback /\ tpc = "idle" /\ pc = "cb"
    /\ current_goal # NoGoal /\ status[current_goal] = "PREEMPTING"
    /\ is_preempt_requested
    /\ Len(execution_queue) >= 1

\* C14 -- goal availability is signalled in the callback-driven configuration:
\* once a goal callback is registered, a goal admitted by
\* internal_goal_callback makes is_new_goal_available() true when the handler
\* returns (the handler has signalled the new goal).
C14_AvailabilitySignalled ==
    [][\A g \in Goals :
          (/\ goal_callback
           /\ status[g] = "NONE"
           /\ status'[g] = "PENDING"
           /\ g \in Range(execution_queue')) => is_new_goal_available'
      ]_vars

\* C15 -- lock ordering and deadlock freedom: a thread that acquires
\* action_server.lock while it holds self.lock already holds
\* action_server.lock; the two threads are never both blocked on a lock; and a
\* thread that is in no call holds no lock.
C15_Blocked(th) ==
    /\ script[th] # <<>>
    /\ Head(script[th])[1] \in {"acquire", "wait_reacquire"}
    /\ locks[Head(script[th])[2]].owner \notin {"none", th}

C15_LockOrder ==
    /\ [](~(C15_Blocked("transport") /\ C15_Blocked("execute")))
    /\ [](\A th \in Threads : script[th] = <<>> => \A l \in Locks : ~Holds(th, l))
    /\ [][\A th \in Threads :
            (/\ LockAcquire(th)
             /\ Head(script[th])[2] = "action_server.lock"
             /\ Holds(th, "lock")) => Holds(th, "action_server.lock")
         ]_vars

\* the preempt callback, on the transport thread, is inside set_preempted's
\* cancel_all (both locks re-entered twice) while the execute thread is
\* blocked on action_server.lock at the entry of a method
C15_Witness ==
    /\ locks["action_server.lock"] = [owner |-> "transport", depth |-> 3]
    /\ locks["lock"] = [owner |-> "transport", depth |-> 3]
    /\ C15_Blocked("execute")

\* C16 -- the promotion step is atomic with respect to the transport thread:
\* from the queue-length test of get_next_goal (line 115) to its popleft
\* (line 122) the slots, the flags and the execution queue are changed by the
\* execute thread only.
C16_InPromotion == pc \in {"gn_peek", "gn_flags", "gn_accept", "gn_pop"}

C16_PromotionAtomic ==
    [][(C16_InPromotion /\ <<slots, flags, execution_queue>>'
                               # <<slots, flags, execution_queue>>)
          => pc' # pc
      ]_vars

\* C17 -- shutdown: once need_to_terminate is set the execute thread
\* eventually ends, and it ends only by leaving the loop at its top after it
\* has seen the flag (never from inside get_next_goal, the busy check or a
\* callback invocation).
C17_ThreadEnded == pc \in {"done", "crashed"}

C17_Shutdown ==
    /\ need_to_terminate ~> C17_ThreadEnded
    /\ [][(~C17_ThreadEnded /\ C17_ThreadEnded') =>
             (pc = "top" /\ need_to_terminate /\ pc' = "done")]_vars

\* C18 -- FIFO promotion: goals are submitted, hence admitted, in the order of
\* their numbers; every promotion makes current a goal admitted later than the
\* goal it replaces (so of two goals that both become current the one admitted
\* first becomes current first), and when the execute callback starts it is
\* for the current goal and no other goal is ACTIVE or PREEMPTING (every goal
\* promoted earlier is terminal).
C18_FifoPromotion ==
    /\ [][(current_goal' # current_goal) =>
             /\ GetNextGoalAccept
             /\ current_goal < current_goal'
         ]_vars
    /\ [][(pc # "cb" /\ pc' = "cb") =>
             /\ goal' = current_goal' /\ status'[goal'] \in ActiveStatuses
             /\ \A h \in Goals : h # goal' => status'[h] \notin ActiveStatuses
         ]_vars

\* the callback runs for goal 3 after goals 1 and 2 have been current, in
\* that order, and have ended
C18_Witness ==
    /\ pc = "cb" /\ current_goal = 3 /\ status[3] = "ACTIVE"
    /\ status[1] \in {"SUCCEEDED", "ABORTED", "PREEMPTED"}
    /\ status[2] \in {"SUCCEEDED", "ABORTED", "PREEMPTED"}

\* C19 -- promoted timestamps never go backwards: the goal a promotion makes
\* current has a stamp >= the stamp of the goal it replaces (hence of every
\* goal promoted before it).
C19_PromotedStampsMonotonic ==
    [][(current_goal' # current_goal /\ current_goal # NoGoal) =>
          stamp'[current_goal'] >= stamp[current_goal]
      ]_vars

\* C20 -- no goal leaves the execution queue unhandled: the popleft of
\* get_next_goal finds the queue non-empty and removes exactly the goal that
\* was just promoted (the current goal), and every goal that leaves the queue
\* is the current goal or has been REJECTED or canceled.
C20_NoGoalLost ==
    /\ [][(pc = "gn_pop" /\ pc' # pc) =>
             /\ pc' = "gn_ret"
             /\ execution_queue # <<>>
             /\ Head(execution_queue) = current_goal
         ]_vars
    /\ [][\A g \in Goals :
            (g \in Range(execution_queue) /\ g \notin Range(execution_queue')) =>
                \/ g = current_goal'
                \/ status'[g] \in {"REJECTED", "RECALLED", "PREEMPTED"}
         ]_vars

====
